---- MODULE Spec2Model ----
(***************************************************************************)
(* Training-feedback API (backend/main.py): the request handlers           *)
(* sheets_status, view_data, download_excel, delete_feedback and           *)
(* submit_feedback over the two stores they share, the local workbook      *)
(* "Training Feedback.xlsx" and the remote Google worksheet.               *)
(*                                                                         *)
(* A store is a sequence of rows, a row a sequence of NumCols cells.  A    *)
(* cell is a record [k, s, n]: k = "none" (no value), "str" (text s) or    *)
(* "num" (a number, n hundredths).  Every handler is cut at its I/O calls: *)
(* each file-system or network call is one step, and each step may raise.  *)
(***************************************************************************)
EXTENDS Integers, Sequences, FiniteSets, TLC

\* ------------------------------------------------------------------ bounds
\* Rows the two stores may hold together (header rows included).
MaxRows == 3
\* covered_topics lists and topic lengths tried by the join round trip.
MaxTopics == 2
MaxTopicLen == 2

\* ------------------------------------------------------------------- cells
NumCols == 14

NoneCell == [k |-> "none", s |-> "", n |-> 0]
Str(t) == [k |-> "str", s |-> t, n |-> 0]
Num(h) == [k |-> "num", s |-> "", n |-> h]

\* The header list written by _get_worksheet and by submit_feedback.
HEADER ==
  << Str("Timestamp"), Str("Submission ID"), Str("Full Name"), Str("Email"),
     Str("Job Role"), Str("Training Title"), Str("Instructor Name"),
     Str("Content Avg"), Str("Trainer Avg"), Str("Organization Avg"),
     Str("Overall Avg"), Str("Covered Topics"), Str("Other Topic"),
     Str("Comments") >>

\* A row of a sheet that holds nothing: every cell without a value.
BlankRow == [j \in 1..NumCols |-> NoneCell]

\* ------------------------------------------------------ submit: the record
RECURSIVE Sum(_)
Sum(lst) == IF lst = <<>> THEN 0 ELSE Head(lst) + Sum(Tail(lst))

\* round(a / b, 2) in hundredths for b > 0: a is 100 * sum.  Python rounds an
\* exact tie to the even hundredth.
RoundDiv(a, b) ==
  LET q == a \div b
      r == a % b
  IN  IF 2 * r < b THEN q
      ELSE IF 2 * r > b THEN q + 1
      ELSE IF q % 2 = 0 THEN q ELSE q + 1

\* average(lst): round(sum(lst) / len(lst), 2) if lst else 0, in hundredths.
average(lst) == IF lst = <<>> THEN 0 ELSE RoundDiv(100 * Sum(lst), Len(lst))

\* The separator of ", ".join, as characters.
Sep == << ",", " " >>

\* A join that leaves the space out of the separator.
JoinBad(lst) ==
  IF lst = <<>> THEN <<>>
  ELSE LET F[i \in 1..Len(lst)] ==
             IF i = 1 THEN lst[1] ELSE F[i - 1] \o << "," >> \o lst[i]
       IN  F[Len(lst)]

\* ", ".join(covered_topics) on topics given as character sequences.
Join(lst) ==
  IF lst = <<>> THEN <<>>
  ELSE LET F[i \in 1..Len(lst)] ==
             IF i = 1 THEN lst[1] ELSE F[i - 1] \o Sep \o lst[i]
       IN  F[Len(lst)]

\* A character sequence as the string it spells.
RECURSIVE ToStr(_)
ToStr(cs) == IF cs = <<>> THEN "" ELSE Head(cs) \o ToStr(Tail(cs))

\* The 14-element row list submit_feedback assembles.
BuildRow(ts, id, form) ==
  << Str(ts), Str(id), Str(form.full_name), Str(form.email),
     Str(form.job_role), Str(form.training_title), Str(form.instructor_name),
     Num(average(form.content_ratings)), Num(average(form.trainer_ratings)),
     Num(average(form.organization_ratings)),
     Num(average(form.overall_ratings)),
     Str(ToStr(Join(form.covered_topics))), Str(form.other_topic),
     Str(form.comments) >>

\* --------------------------------------------------------- sequence helpers
RemoveAt(rows, i) == SubSeq(rows, 1, i - 1) \o SubSeq(rows, i + 1, Len(rows))

\* The first of the row numbers in hits, 0 when there is none.
FirstIndex(hits) ==
  IF hits = {} THEN 0 ELSE CHOOSE i \in hits : \A j \in hits : i <= j

\* ------------------------------------------------ local workbook (openpyxl)
\* What load_workbook reads back from a cell wb.save wrote: a cell holding the
\* empty string is written without a value.
XlsxCell(c) == IF c.k = "str" /\ c.s = "" THEN NoneCell ELSE c

XlsxRows(rows) ==
  [i \in 1..Len(rows) |-> [j \in 1..Len(rows[i]) |-> XlsxCell(rows[i][j])]]

\* view_data, "Skip empty rows": any(cell is not None for cell in row).
ExcelRowKept(row) == \E j \in 1..Len(row) : row[j].k # "none"

\* headers of view_data: the values of ws[1]; an empty sheet has the one
\* cell A1, without a value.
ExcelHeaders(rows) == IF rows = <<>> THEN << NoneCell >> ELSE rows[1]

\* data of view_data: ws.iter_rows(min_row=2) without the empty rows.
ExcelData(rows) == SelectSeq(SubSeq(rows, 2, Len(rows)), ExcelRowKept)

\* delete_feedback: the first row from row 2 on whose column B equals the id.
ExcelFind(rows, id) ==
  FirstIndex({ i \in 2..Len(rows) : rows[i][2] = Str(id) })

\* --------------------------------------------- remote worksheet (gspread)
Digit == << "0", "1", "2", "3", "4", "5", "6", "7", "8", "9" >>

RECURSIVE NatStr(_)
NatStr(m) ==
  IF m < 10 THEN Digit[m + 1] ELSE NatStr(m \div 10) \o Digit[(m % 10) + 1]

\* The text the sheet shows for a number of h hundredths (4.5, 3.67, 0, 5).
NumStr(h) ==
  LET a == IF h < 0 THEN -h ELSE h
      whole == NatStr(a \div 100)
      frac == a % 100
      body == IF frac = 0 THEN whole
              ELSE IF frac % 10 = 0 THEN whole \o "." \o Digit[(frac \div 10) + 1]
              ELSE whole \o "." \o Digit[(frac \div 10) + 1]
                         \o Digit[(frac % 10) + 1]
  IN  IF h < 0 THEN "-" \o body ELSE body

\* A cell as get_all_values returns it: always a string.
Render(c) ==
  IF c.k = "str" THEN c ELSE IF c.k = "num" THEN Str(NumStr(c.n)) ELSE Str("")

RowIsBlank(row) == \A j \in 1..Len(row) : Render(row[j]).s = ""

\* The grid up to its last row that holds a value.
Trim(rows) ==
  LET used == { i \in 1..Len(rows) : ~RowIsBlank(rows[i]) }
  IN  IF used = {} THEN <<>>
      ELSE SubSeq(rows, 1, CHOOSE i \in used : \A j \in used : j <= i)

\* ws.get_all_values(): the used rows, every cell as text.
GetAllValues(rows) ==
  LET t == Trim(rows)
  IN  [i \in 1..Len(t) |-> [j \in 1..Len(t[i]) |-> Render(t[i][j])]]

\* The test of the Excel branch, "is not None", applied to sheet values.
SheetRowKeptBad(row) == \E j \in 1..Len(row) : row[j].k # "none"

\* "Skip empty rows" of the Sheets branches: any(cell for cell in row).
SheetRowKept(row) == \E j \in 1..Len(row) : row[j].s # ""

\* ws.find(submission_id): the row of the first cell, rows first, whose text
\* equals the query; 0 for None.
SheetFind(values, q) ==
  FirstIndex({ i \in 1..Len(values) :
                 \E j \in 1..Len(values[i]) : values[i][j] = Str(q) })

\* ws.append_row(row): the values go below the last used row; an empty
\* string leaves its cell empty.
GridRow(row) ==
  [j \in 1..Len(row) |-> IF row[j] = Str("") THEN NoneCell ELSE row[j]]

AppendRow(rows, row) == Trim(rows) \o << GridRow(row) >>

\* ws.delete_rows(i): the rows below move up by one.
DeleteRows(rows, i) == Trim(RemoveAt(rows, i))

\* ------------------------------------------------------------ configuration
Unset == "<unset>"

\* os.getenv(name, default)
GetEnv(v, default) == IF v = Unset THEN default ELSE v

\* str.lower() on the flag values the model sets.
Lower(v) == IF v \in {"True", "TRUE"} THEN "true" ELSE v

\* The flag compared without .lower().
GoogleSheetsEnabledBad(e, lib) ==
  GetEnv(e.flag, "false") = "true" /\ e.sid # Unset /\ lib

\* _google_sheets_enabled() under configuration e; lib: gspread and
\* Credentials were imported.
GoogleSheetsEnabled(e, lib) ==
  Lower(GetEnv(e.flag, "false")) = "true" /\ e.sid # Unset /\ lib

\* _load_service_account_credentials(): the environment value first, then the
\* JSON file; each source is absent, unusable or good.
CredStates == {"absent", "bad", "good"}

LoadCredentials(envCred, fileCred) ==
  IF envCred = "good" THEN "ok"
  ELSE IF fileCred = "good" THEN "ok"
  ELSE "raise"

\* ------------------------------------------------------------------- inputs
\* Two request bodies (FeedbackForm).  The first is the Jane Doe scenario; the
\* second has a name that reads like a submission id, and no ratings.
Forms ==
  << [full_name |-> "Jane Doe", email |-> "jane@example.com",
      job_role |-> "Engineer", training_title |-> "Onboarding",
      instructor_name |-> "Lee",
      content_ratings |-> << 4, 5 >>, trainer_ratings |-> << >>,
      organization_ratings |-> << 3, 4, 4 >>, overall_ratings |-> << 5 >>,
      covered_topics |-> << << "S", "a", "f", "e", "t", "y" >>,
                            << "E", "t", "h", "i", "c", "s" >> >>,
      other_topic |-> "", comments |-> ""],
     [full_name |-> "b2c3d4e5", email |-> "bo@example.com",
      job_role |-> "Analyst", training_title |-> "Onboarding",
      instructor_name |-> "Lee",
      content_ratings |-> << >>, trainer_ratings |-> << >>,
      organization_ratings |-> << >>, overall_ratings |-> << >>,
      covered_topics |-> << >>,
      other_topic |-> "", comments |-> "ok"] >>

\* str(uuid4())[:8]: eight hexadecimal digits; the id drawn for each form.
IdOf == << "b2c3d4e5", "a1b2c3d4" >>

Ids == { IdOf[f] : f \in DOMAIN IdOf }

\* The path parameter of DELETE /delete-feedback/{submission_id}.
DeleteIds == Ids

\* datetime.now().strftime("%Y-%m-%d %H:%M:%S")
Timestamps == {"2026-01-05 10:00:00"}

NoReq == [kind |-> "none", id |-> "", form |-> 0, ts |-> ""]

Submits ==
  { [kind |-> "submit", id |-> IdOf[f], form |-> f, ts |-> t] :
      f \in DOMAIN Forms, t \in Timestamps }

Deletes == [kind : {"delete"}, id : DeleteIds, form : {0}, ts : {""}]

Reads ==
  [kind : {"status", "view", "download"}, id : {""}, form : {0}, ts : {""}]

Requests == Submits \cup Deletes \cup Reads

RowOf(r) == BuildRow(r.ts, r.id, Forms[r.form])

FlagValues == {Unset, "true", "True"}

SidValues == {Unset, "sheet-1"}

\* Character sequences for the join round trip.
TopicChars == {"a", ",", " "}

SeqsUpTo(S, m) == UNION { [1..k -> S] : k \in 0..m }

TopicLists == SeqsUpTo(SeqsUpTo(TopicChars, MaxTopicLen), MaxTopics)

\* ---------------------------------------------------------------- responses
NoResp ==
  [status |-> "none", why |-> "", storage |-> "", id |-> "", total |-> 0,
   total_rows |-> 0, headers |-> << >>, data |-> << >>]

\* {"status": "error", "message": ...}
ErrorResp(why) == [NoResp EXCEPT !.status = "error", !.why = why]

\* {"status": "success", ...} of submit and delete.
DoneResp(storage, id) ==
  [NoResp EXCEPT !.status = "success", !.storage = storage, !.id = id]

\* {"status": "success", "total_submissions", "headers", "data"}
ViewResp(headers, data) ==
  [NoResp EXCEPT !.status = "success", !.total = Len(data),
                 !.headers = headers, !.data = data]

\* sheets_status with the remote store active.
StatusResp(values) ==
  [NoResp EXCEPT !.status = "success", !.storage = "sheets",
     !.total_rows = Len(values),
     !.total = IF Len(values) > 1
               THEN Len(SelectSeq(SubSeq(values, 2, Len(values)), SheetRowKept))
               ELSE 0]

\* FileResponse: the rows of the workbook sent, under a file name that names
\* the backend.
FileResp(storage, rows) ==
  [NoResp EXCEPT !.status = "file", !.storage = storage, !.data = rows]

\* -------------------------------------------------------------------- state
Procs == {1, 2}

VARIABLES
  env,      \* os.environ: [flag, sid]
  lib,      \* gspread and Credentials imported
  file,     \* the local workbook: [exists, rows]
  sheet,    \* the remote worksheet: [exists, rows]
  pc,       \* per worker: where its handler stands
  req,      \* per worker: the request being handled
  backend,  \* per worker: the branch _google_sheets_enabled() selected
  wb,       \* per worker: the workbook held in memory
  hit,      \* per worker: the row ws.find returned
  resp,     \* per worker: what the client receives
  pre,      \* per worker: stores and configuration when the request began
  failed,   \* per worker: a step of the request raised
  touched,  \* per worker: the stores the request has called
  topics,   \* join round trip: the covered_topics list
  joined,   \* join round trip: the string stored for it
  tstate    \* join round trip: "input", "stored", or "off"

storeVars == << file, sheet >>
cfgVars == << env, lib >>
procVars == << pc, req, backend, wb, hit, resp >>
ghostVars == << pre, failed, touched >>
topicVars == << topics, joined, tstate >>
vars == << storeVars, cfgVars, procVars, ghostVars, topicVars >>

NoStore == [exists |-> FALSE, rows |-> << >>]
Store(rows) == [exists |-> TRUE, rows |-> rows]
NoPre ==
  [file |-> NoStore, sheet |-> NoStore, env |-> [flag |-> Unset, sid |-> Unset]]

\* A record already stored when the service starts.
OldRow == BuildRow("2026-01-05 10:00:00", IdOf[1], Forms[1])

\* The stores the service may find: no store, an empty one, the header alone,
\* and a header with an emptied row above a stored record.
InitStores ==
  { NoStore, Store(<< >>), Store(<< HEADER >>),
    Store(<< HEADER, BlankRow, OldRow >>) }

TotalRows == Len(file.rows) + Len(sheet.rows)

ProcInit ==
  /\ pc = [p \in Procs |-> "idle"]
  /\ req = [p \in Procs |-> NoReq]
  /\ backend = [p \in Procs |-> "none"]
  /\ wb = [p \in Procs |-> << >>]
  /\ hit = [p \in Procs |-> 0]
  /\ resp = [p \in Procs |-> NoResp]
  /\ pre = [p \in Procs |-> NoPre]
  /\ failed = [p \in Procs |-> FALSE]
  /\ touched = [p \in Procs |-> {}]

Init ==
  /\ env \in [flag : FlagValues, sid : SidValues]
  /\ lib \in BOOLEAN
  /\ \E f \in InitStores, s \in InitStores :
       /\ file = [f EXCEPT !.rows = XlsxRows(f.rows)]
       /\ sheet = [s EXCEPT !.rows = [i \in 1..Len(s.rows) |-> GridRow(s.rows[i])]]
       /\ Len(f.rows) + Len(s.rows) <= MaxRows
       /\ ~lib => s = NoStore
  /\ ProcInit
  /\ topics = << >> /\ joined = << >> /\ tstate = "off"

\* ------------------------------------------------------------------ actions
\* The handler returns r.
Finish(p, r) ==
  /\ pc' = [pc EXCEPT ![p] = "done"]
  /\ resp' = [resp EXCEPT ![p] = r]

\* A step raised inside the handler's try: except Exception returns the
\* error dictionary.
Raise(p) ==
  /\ Finish(p, ErrorResp("exception"))
  /\ failed' = [failed EXCEPT ![p] = TRUE]

Goto(p, label) ==
  /\ pc' = [pc EXCEPT ![p] = label]
  /\ resp' = resp

Touch(p, store) == touched' = [touched EXCEPT ![p] = @ \cup {store}]

\* The first remote call of each handler after _get_worksheet().
OpStep(kind) ==
  IF kind = "submit" THEN "gs_append"
  ELSE IF kind = "delete" THEN "gs_find"
  ELSE "gs_get"

\* A handler is entered with request r: submit_feedback builds its row, and
\* every handler asks _google_sheets_enabled() once.  sheets_status answers at
\* once when the remote store is not enabled.  A submit is taken while the
\* stores hold fewer than MaxRows rows.
Begin(p, r) ==
  /\ pc[p] = "idle"
  /\ r.kind = "submit" => TotalRows < MaxRows
  /\ LET b == IF GoogleSheetsEnabled(env, lib) THEN "sheets" ELSE "excel"
     IN  /\ req' = [req EXCEPT ![p] = r]
         /\ backend' = [backend EXCEPT ![p] = b]
         /\ pre' = [pre EXCEPT ![p] =
                      [file |-> file, sheet |-> sheet, env |-> env]]
         /\ IF r.kind = "status" /\ b = "excel"
            THEN Finish(p, [NoResp EXCEPT !.status = "success"])
            ELSE Goto(p, IF b = "sheets" THEN "gs_open" ELSE "xl_exists")
  /\ UNCHANGED << storeVars, cfgVars, wb, hit, failed, touched, topicVars >>

\* _get_worksheet, to sh.worksheet(name): credentials, authorize, open_by_key
\* (os.environ["GOOGLE_SPREADSHEET_ID"] is read again) and the lookup.
GsOpen(p) ==
  /\ pc[p] = "gs_open"
  /\ \E envCred \in CredStates, fileCred \in CredStates, ok \in BOOLEAN :
       IF LoadCredentials(envCred, fileCred) = "raise" \/ env.sid = Unset
       THEN Raise(p) /\ touched' = touched
       ELSE /\ Touch(p, "sheets")
            /\ IF ~ok THEN Raise(p)
               ELSE /\ Goto(p, IF sheet.exists THEN OpStep(req[p].kind)
                                ELSE "gs_add")
                    /\ failed' = failed
  /\ UNCHANGED << storeVars, cfgVars, req, backend, wb, hit, pre, topicVars >>

\* except gspread.WorksheetNotFound: sh.add_worksheet(...)
GsAdd(p) ==
  /\ pc[p] = "gs_add"
  /\ \E ok \in BOOLEAN :
       IF ok /\ ~sheet.exists
       THEN /\ sheet' = Store(<< >>)
            /\ Goto(p, "gs_hdr")
            /\ failed' = failed
       ELSE Raise(p) /\ sheet' = sheet
  /\ UNCHANGED << file, cfgVars, req, backend, wb, hit, pre, touched,
                  topicVars >>

\* ws.append_row([...headers...]) on the worksheet just added.
GsHdr(p) ==
  /\ pc[p] = "gs_hdr"
  /\ \E ok \in BOOLEAN :
       IF ok
       THEN /\ sheet' = Store(AppendRow(sheet.rows, HEADER))
            /\ Goto(p, OpStep(req[p].kind))
            /\ failed' = failed
       ELSE Raise(p) /\ sheet' = sheet
  /\ UNCHANGED << file, cfgVars, req, backend, wb, hit, pre, touched,
                  topicVars >>

\* The rows the Sheets branches keep below the header.
SheetData(values) == SelectSeq(SubSeq(values, 2, Len(values)), SheetRowKept)

\* An export that leaves the header row out.
SheetExportBad(values) == XlsxRows(SheetData(values))

\* Sheets branch of download_excel: headers, then every row kept, appended to
\* a new workbook, saved to a temporary file and sent.
SheetExport(values) == XlsxRows(<< values[1] >> \o SheetData(values))

\* ws.get_all_values() and the answer of sheets_status, view_data or
\* download_excel built from it.
GsGet(p) ==
  /\ pc[p] = "gs_get"
  /\ \E ok \in BOOLEAN :
       IF ok
       THEN LET values == GetAllValues(sheet.rows)
                kind == req[p].kind
            IN  /\ Finish(p,
                     IF kind = "status" THEN StatusResp(values)
                     ELSE IF kind = "view"
                       THEN IF values = << >> THEN ViewResp(<< >>, << >>)
                            ELSE ViewResp(values[1], SheetData(values))
                     ELSE IF values = << >> THEN ErrorResp("no data")
                          ELSE FileResp("sheets", SheetExport(values)))
                /\ failed' = failed
       ELSE Raise(p)
  /\ UNCHANGED << storeVars, cfgVars, req, backend, wb, hit, pre, touched,
                  topicVars >>

\* cell = ws.find(submission_id); if not cell: return the not-found error.
GsFind(p) ==
  /\ pc[p] = "gs_find"
  /\ \E ok \in BOOLEAN :
       IF ok
       THEN LET i == SheetFind(GetAllValues(sheet.rows), req[p].id)
            IN  /\ hit' = [hit EXCEPT ![p] = i]
                /\ IF i = 0 THEN Finish(p, ErrorResp("not found"))
                   ELSE Goto(p, "gs_del")
                /\ failed' = failed
       ELSE Raise(p) /\ hit' = hit
  /\ UNCHANGED << storeVars, cfgVars, req, backend, wb, pre, touched,
                  topicVars >>

\* ws.delete_rows(cell.row)
GsDel(p) ==
  /\ pc[p] = "gs_del"
  /\ \E ok \in BOOLEAN :
       IF ok
       THEN /\ sheet' = Store(DeleteRows(sheet.rows, hit[p]))
            /\ Finish(p, DoneResp("sheets", req[p].id))
            /\ failed' = failed
       ELSE Raise(p) /\ sheet' = sheet
  /\ UNCHANGED << file, cfgVars, req, backend, wb, hit, pre, touched,
                  topicVars >>

\* ws.append_row(row); return storage "sheets".
GsAppend(p) ==
  /\ pc[p] = "gs_append"
  /\ \E ok \in BOOLEAN :
       IF ok
       THEN /\ sheet' = Store(AppendRow(sheet.rows, RowOf(req[p])))
            /\ Finish(p, DoneResp("sheets", req[p].id))
            /\ failed' = failed
       ELSE Raise(p) /\ sheet' = sheet
  /\ UNCHANGED << file, cfgVars, req, backend, wb, hit, pre, touched,
                  topicVars >>

\* os.path.exists(EXCEL_FILE).  A missing file ends view, download and delete
\* with the not-found error and sends submit to write the header file;
\* download_excel returns its FileResponse without opening the file.
XlExists(p) ==
  /\ pc[p] = "xl_exists"
  /\ Touch(p, "excel")
  /\ LET kind == req[p].kind
     IN  IF file.exists
         THEN IF kind = "download"
              THEN /\ pc' = [pc EXCEPT ![p] = "xl_send"]
                   /\ resp' = [resp EXCEPT ![p] = FileResp("excel", << >>)]
              ELSE Goto(p, "xl_load")
         ELSE IF kind = "submit" THEN Goto(p, "xl_init")
              ELSE Finish(p, ErrorResp("file missing"))
  /\ UNCHANGED << storeVars, cfgVars, req, backend, wb, hit, pre, failed,
                  topicVars >>

\* wb = Workbook(); ws.append([...headers...]); wb.save(EXCEL_FILE)
XlInit(p) ==
  /\ pc[p] = "xl_init"
  /\ \E ok \in BOOLEAN :
       IF ok
       THEN /\ file' = Store(XlsxRows(<< HEADER >>))
            /\ Goto(p, "xl_load")
            /\ failed' = failed
       ELSE Raise(p) /\ file' = file
  /\ UNCHANGED << sheet, cfgVars, req, backend, wb, hit, pre, touched,
                  topicVars >>

\* wb = load_workbook(EXCEL_FILE) and the work done on it in memory: view_data
\* answers, delete_feedback looks for its row, submit_feedback appends.
XlLoad(p) ==
  /\ pc[p] = "xl_load"
  /\ \E ok \in BOOLEAN :
       IF ok /\ file.exists
       THEN LET kind == req[p].kind
                i == ExcelFind(file.rows, req[p].id)
            IN  /\ failed' = failed
                /\ IF kind = "view"
                   THEN /\ Finish(p, ViewResp(ExcelHeaders(file.rows),
                                              ExcelData(file.rows)))
                        /\ UNCHANGED << wb, hit >>
                   ELSE IF kind = "delete"
                   THEN /\ hit' = [hit EXCEPT ![p] = i]
                        /\ IF i = 0
                           THEN Finish(p, ErrorResp("not found")) /\ wb' = wb
                           ELSE /\ Goto(p, "xl_save")
                                /\ wb' = [wb EXCEPT ![p] =
                                            RemoveAt(file.rows, i)]
                   ELSE /\ Goto(p, "xl_save")
                        /\ wb' = [wb EXCEPT ![p] =
                                    file.rows \o << RowOf(req[p]) >>]
                        /\ hit' = hit
       ELSE Raise(p) /\ UNCHANGED << wb, hit >>
  /\ UNCHANGED << storeVars, cfgVars, req, backend, pre, touched, topicVars >>

\* A save that adds the last row in memory to the file as it is on disk.
XlSaveBad(p) ==
  /\ pc[p] = "xl_save"
  /\ file' = Store(XlsxRows(file.rows \o << wb[p][Len(wb[p])] >>))
  /\ Finish(p, DoneResp("excel", req[p].id))
  /\ UNCHANGED << sheet, cfgVars, req, backend, wb, hit, ghostVars, topicVars >>

\* wb.save(EXCEL_FILE): the whole file is replaced by the workbook in memory.
XlSave(p) ==
  /\ pc[p] = "xl_save"
  /\ \E ok \in BOOLEAN :
       IF ok
       THEN /\ file' = Store(XlsxRows(wb[p]))
            /\ Finish(p, DoneResp("excel", req[p].id))
            /\ failed' = failed
       ELSE Raise(p) /\ file' = file
  /\ UNCHANGED << sheet, cfgVars, req, backend, wb, hit, pre, touched,
                  topicVars >>

\* The FileResponse download_excel returned is sent: the file is opened and
\* read only now, after the handler and its try block were left, so a failure
\* here is an unhandled exception of the server.
XlSend(p) ==
  /\ pc[p] = "xl_send"
  /\ \E ok \in BOOLEAN :
       IF ok /\ file.exists
       THEN /\ Finish(p, FileResp("excel", file.rows))
            /\ failed' = failed
       ELSE /\ Finish(p, [NoResp EXCEPT !.status = "unhandled"])
            /\ failed' = [failed EXCEPT ![p] = TRUE]
  /\ UNCHANGED << storeVars, cfgVars, req, backend, wb, hit, pre, touched,
                  topicVars >>

\* The response was sent; the worker takes the next request.
Return(p) ==
  /\ pc[p] = "done"
  /\ pc' = [pc EXCEPT ![p] = "idle"]
  /\ req' = [req EXCEPT ![p] = NoReq]
  /\ backend' = [backend EXCEPT ![p] = "none"]
  /\ wb' = [wb EXCEPT ![p] = << >>]
  /\ hit' = [hit EXCEPT ![p] = 0]
  /\ resp' = [resp EXCEPT ![p] = NoResp]
  /\ pre' = [pre EXCEPT ![p] = NoPre]
  /\ failed' = [failed EXCEPT ![p] = FALSE]
  /\ touched' = [touched EXCEPT ![p] = {}]
  /\ UNCHANGED << storeVars, cfgVars, topicVars >>

\* The operator changes GOOGLE_SHEETS_ENABLED or GOOGLE_SPREADSHEET_ID.
SetFlag(v) ==
  /\ env.flag # v
  /\ env' = [env EXCEPT !.flag = v]
  /\ UNCHANGED << lib, storeVars, procVars, ghostVars, topicVars >>

SetSid(v) ==
  /\ env.sid # v
  /\ env' = [env EXCEPT !.sid = v]
  /\ UNCHANGED << lib, storeVars, procVars, ghostVars, topicVars >>

\* One server process: the handlers are coroutines that never await, so the
\* event loop runs each request to its end before it takes the next.
Start(p) == \E r \in Requests : Begin(p, r)

Next ==
  \/ Start(1)
  \/ GsOpen(1) \/ GsAdd(1) \/ GsHdr(1) \/ GsGet(1)
  \/ GsFind(1) \/ GsDel(1) \/ GsAppend(1)
  \/ XlExists(1) \/ XlInit(1) \/ XlLoad(1) \/ XlSave(1) \/ XlSend(1)
  \/ Return(1)
  \/ \E v \in FlagValues : SetFlag(v)
  \/ \E v \in SidValues : SetSid(v)

Spec == Init /\ [][Next]_vars

\* ------------------------------------------- two workers on the local file
\* Two server processes started on the same directory share EXCEL_FILE and
\* nothing else: each handles one write request, remote storage disabled.
InitRace ==
  /\ env = [flag |-> Unset, sid |-> Unset]
  /\ lib = FALSE
  /\ file \in { NoStore, Store(XlsxRows(<< HEADER >>)),
                Store(XlsxRows(<< HEADER, OldRow >>)) }
  /\ sheet = NoStore
  /\ ProcInit
  /\ topics = << >> /\ joined = << >> /\ tstate = "off"

StartWrite(p) == \E r \in Submits \cup Deletes : Begin(p, r)

NextRace ==
  \E p \in Procs :
    \/ StartWrite(p)
    \/ XlExists(p) \/ XlInit(p) \/ XlLoad(p) \/ XlSave(p)

SpecRace == InitRace /\ [][NextRace]_vars

\* ------------------------------------------------- the covered_topics cell
\* submit_feedback stores ", ".join(form.covered_topics) for a topics list.
InitTopics ==
  /\ env = [flag |-> Unset, sid |-> Unset]
  /\ lib = FALSE
  /\ file = NoStore /\ sheet = NoStore
  /\ ProcInit
  /\ topics \in TopicLists
  /\ joined = << >>
  /\ tstate = "input"

StoreTopics ==
  /\ tstate = "input"
  /\ joined' = Join(topics)
  /\ tstate' = "stored"
  /\ UNCHANGED << topics, storeVars, cfgVars, procVars, ghostVars >>

SpecTopics == InitTopics /\ [][StoreTopics]_vars

\* =================================================================== claims
\* The worker of the single-process specification.
W == CHOOSE p \in Procs : \A q \in Procs : p <= q

StoreOf(b) == IF b = "sheets" THEN sheet ELSE file
PreOf(b) == IF b = "sheets" THEN pre[W].sheet ELSE pre[W].file

\* A cell without content: no value, or the empty string.
Blank(c) == c.k = "none" \/ (c.k = "str" /\ c.s = "")

\* Two cells carry the same content: both without content, equal, or a number
\* and the text a sheet shows for it.
SameCell(a, b) ==
  \/ Blank(a) /\ Blank(b)
  \/ a = b
  \/ a.k = "num" /\ b = Str(NumStr(a.n))
  \/ b.k = "num" /\ a = Str(NumStr(b.n))

SameRow(r1, r2) ==
  /\ Len(r1) = Len(r2)
  /\ \A j \in 1..Len(r1) : SameCell(r1[j], r2[j])

SameRows(a, b) ==
  /\ Len(a) = Len(b)
  /\ \A i \in 1..Len(a) : SameRow(a[i], b[i])

HasContent(row) == \E j \in 1..Len(row) : ~Blank(row[j])

IsHeader(row) == SameRow(row, HEADER)

\* What view-data lists for store st of backend b.
ListedData(b, st) ==
  IF b = "sheets"
  THEN LET values == GetAllValues(st.rows)
       IN  IF values = << >> THEN << >> ELSE SheetData(values)
  ELSE IF st.exists THEN ExcelData(st.rows) ELSE << >>

\* The headers view-data lists for store st of backend b.
ListedHeaders(b, st) ==
  IF b = "sheets"
  THEN LET values == GetAllValues(st.rows)
       IN  IF values = << >> THEN << >> ELSE values[1]
  ELSE ExcelHeaders(st.rows)

\* The rows of store st from row 2 on whose submission_id column holds id.
IdRows(st, id) ==
  { i \in 2..Len(st.rows) : SameCell(st.rows[i][2], Str(id)) }

\* The same rows; of a worksheet, up to its last row with a value.
SameStore(b, rows1, rows2) ==
  IF b = "sheets" THEN Trim(rows1) = Trim(rows2) ELSE rows1 = rows2

Finished(kind) ==
  /\ pc[W] = "done"
  /\ req[W].kind = kind
  /\ ~failed[W]

\* C1: after a submit that returned success, view-data on the same backend
\* lists the rows it listed before, unchanged and in order, followed by exactly
\* one new row of 14 cells carrying the submitted record.
ClaimC1 ==
  (Finished("submit") /\ resp[W].status = "success") =>
    LET b == backend[W]
        before == ListedData(b, PreOf(b))
        after == ListedData(b, StoreOf(b))
    IN  /\ Len(after) = Len(before) + 1
        /\ SubSeq(after, 1, Len(before)) = before
        /\ Len(after[Len(after)]) = NumCols
        /\ SameRow(after[Len(after)], RowOf(req[W]))

\* C2: on a store with its header in row 1, a delete whose id is in the
\* submission_id column of some data row returns success and removes exactly
\* the first such row, every other row staying in place.
ClaimC2 ==
  LET b == backend[W]
      was == PreOf(b)
      ids == IdRows(was, req[W].id)
  IN  (/\ Finished("delete")
       /\ was.rows # << >> /\ IsHeader(was.rows[1])
       /\ ids # {}) =>
        LET first == CHOOSE i \in ids : \A j \in ids : i <= j
        IN  /\ resp[W].status = "success"
            /\ SameStore(b, StoreOf(b).rows, RemoveAt(was.rows, first))

\* C3: on a store with its header in row 1, a delete whose id is in no data
\* row's submission_id column returns the error response and leaves every row
\* of the store as it was.
ClaimC3 ==
  LET b == backend[W]
      was == PreOf(b)
  IN  (/\ Finished("delete")
       /\ was.rows # << >> /\ IsHeader(was.rows[1])
       /\ IdRows(was, req[W].id) = {}) =>
        /\ resp[W].status = "error"
        /\ SameStore(b, StoreOf(b).rows, was.rows)

\* C4: after every submit that returned success, row 1 of the store written is
\* the 14-column header and the submitted record is the last row, at row 2 or
\* below.
ClaimC4 ==
  (Finished("submit") /\ resp[W].status = "success") =>
    LET rows == StoreOf(backend[W]).rows
    IN  /\ Len(rows) >= 2
        /\ IsHeader(rows[1])
        /\ SameRow(rows[Len(rows)], RowOf(req[W]))

ChoiceLiteral(e) ==
  IF e.flag = "true" /\ e.sid # Unset /\ lib THEN "sheets" ELSE "excel"

\* The branch the configuration e selects, the flag compared without regard to
\* letter case.
ChoiceAnyCase(e) ==
  IF e.flag \in {"true", "True", "TRUE"} /\ e.sid # Unset /\ lib
  THEN "sheets" ELSE "excel"

\* Every call of the request went to the backend selected at its start, the
\* other store is as it was then, and a successful submit names that backend
\* and changed its store.
OneBackend ==
  /\ touched[W] \subseteq {backend[W]}
  /\ backend[W] = "excel" => sheet = pre[W].sheet
  /\ backend[W] = "sheets" => file = pre[W].file
  /\ (Finished("submit") /\ resp[W].status = "success") =>
       /\ resp[W].storage = backend[W]
       /\ StoreOf(backend[W]) # PreOf(backend[W])

\* C6 as stated: the remote backend is selected iff the flag is "true", an id
\* is configured and the library is present; the request stays on that backend.
ClaimC6 ==
  pc[W] # "idle" => (backend[W] = ChoiceLiteral(pre[W].env) /\ OneBackend)

\* C6 amended: the remote backend is selected iff the flag reads "true" in any
\* letter case, an id is configured and the library is present; the request
\* stays on that backend whatever the configuration becomes meanwhile.
TheoremC6 ==
  pc[W] # "idle" => (backend[W] = ChoiceAnyCase(pre[W].env) /\ OneBackend)

\* A submit that was selected for the remote store, saw the flag switched off
\* while it ran, and still wrote its row to the remote store.
WitnessC6 ==
  /\ Finished("submit") /\ resp[W].status = "success"
  /\ resp[W].storage = "sheets"
  /\ env.flag = Unset /\ pre[W].env.flag # Unset
  /\ sheet # pre[W].sheet /\ file = pre[W].file

\* C7: a request in which a step failed ends with the structured error
\* response.
ClaimC7 ==
  (pc[W] = "done" /\ failed[W]) => resp[W].status = "error"

RECURSIVE Split(_)
Split(cs) ==
  LET cuts == { i \in 1..(Len(cs) - 1) : SubSeq(cs, i, i + 1) = Sep }
  IN  IF cuts = {} THEN << cs >>
      ELSE LET i == CHOOSE c \in cuts : \A d \in cuts : c <= d
           IN  << SubSeq(cs, 1, i - 1) >> \o Split(SubSeq(cs, i + 2, Len(cs)))

NoComma(lst) ==
  \A i \in 1..Len(lst) : \A j \in 1..Len(lst[i]) : lst[i][j] # ","

\* C9 as stated: for every list of comma-free topics, the empty list included,
\* the stored string split on ", " is the list again.
ClaimC9 ==
  (tstate = "stored" /\ NoComma(topics)) => Split(joined) = topics

\* C9 amended: for every non-empty list of comma-free topics, the stored
\* string split on ", " is the list again.
TheoremC9 ==
  (tstate = "stored" /\ NoComma(topics) /\ topics # << >>) =>
    Split(joined) = topics

\* Two topics, the second empty, stored and split back.
WitnessC9 ==
  /\ tstate = "stored"
  /\ topics = << << "a", " " >>, << >> >>
  /\ Split(joined) = topics

\* Both workers answered success to a submit.
BothSubmitted ==
  \A p \in Procs :
    pc[p] = "done" /\ req[p].kind = "submit" /\ resp[p].status = "success"

\* C10: there is no coordination on the local file.  When two submits both
\* returned success and each appended to a workbook of the same length (neither
\* had the other's row in memory), the file is the workbook of one of them: it
\* gained one row, not two.  Only a submit that loaded after the other's save
\* leaves both rows.
TheoremC10 ==
  /\ (BothSubmitted /\ Len(wb[1]) = Len(wb[2])) =>
       /\ Len(file.rows) = Len(wb[1])
       /\ file.rows \in { XlsxRows(wb[1]), XlsxRows(wb[2]) }
  /\ \A p, q \in Procs :
       (BothSubmitted /\ Len(wb[p]) < Len(wb[q])) =>
         file.rows = XlsxRows(wb[q])

\* A lost update: two submits of different records both returned success and
\* the file holds the row of the second worker and not the row of the first.
WitnessC10 ==
  /\ BothSubmitted
  /\ req[1].form # req[2].form
  /\ \E i \in 1..Len(file.rows) : SameRow(file.rows[i], RowOf(req[2]))
  /\ \A i \in 1..Len(file.rows) : ~SameRow(file.rows[i], RowOf(req[1]))

====
